---- MODULE Spec2Model ----
(***************************************************************************)
(* Model of the git-stats backend (src/index.js): the clone / delete       *)
(* handlers, the contributor aggregation handler, the per-contributor      *)
(* diffs handler and the line-shape matchers they apply to the text of     *)
(* "git show".                                                             *)
(*                                                                         *)
(* Text is modelled in lexed form: a line is a sequence of tokens, a token *)
(* is a string.  Single characters are tokens ("3", "a", ".", "/", "|",   *)
(* " ", TAB, "+", "-"); the fixed phrases the matchers look for are one    *)
(* token each and carry their leading blank (" files changed",             *)
(* " insertions(+)", ...).  A path is the run of character tokens it is    *)
(* made of.  The regular expressions of the source are operators over      *)
(* these token sequences.                                                  *)
(***************************************************************************)
EXTENDS Integers, Sequences, FiniteSets, TLC

VARIABLES
    repoDir,    \* what is at REPO_DIR on disk
    git,        \* the process-wide simple-git handle (index.js:14)
    reader,     \* the contributors / diffs request in progress
    admin,      \* the clone / delete request in progress
    text,       \* the text of one commit handed to the parsers
    parsed,     \* what the diffs handler builds from text
    scanned     \* what the contributors handler builds from text

vars == <<repoDir, git, reader, admin, text, parsed, scanned>>

serverVars == <<repoDir, git, reader, admin>>
parseVars == <<text, parsed, scanned>>

-----------------------------------------------------------------------------
(* Tokens *)

TAB == "\t"
NoTok == ""

DigitToks == {"0", "1", "2", "3", "4", "5", "6", "7", "8", "9"}

DigitVal(d) ==
    CASE d = "0" -> 0 [] d = "1" -> 1 [] d = "2" -> 2 [] d = "3" -> 3
      [] d = "4" -> 4 [] d = "5" -> 5 [] d = "6" -> 6 [] d = "7" -> 7
      [] d = "8" -> 8 [] d = "9" -> 9

DigitTok(n) ==
    CASE n = 0 -> "0" [] n = 1 -> "1" [] n = 2 -> "2" [] n = 3 -> "3"
      [] n = 4 -> "4" [] n = 5 -> "5" [] n = 6 -> "6" [] n = 7 -> "7"
      [] n = 8 -> "8" [] n = 9 -> "9"

IsDigit(t) == t \in DigitToks

\* \s of the regular expressions
IsSpace(t) == t \in {" ", TAB}

\* " files? changed"
FilesChangedWords == {" files changed", " file changed"}
\* " insertions?\(\+\)"
SummaryInsWords == {" insertions(+)", " insertion(+)"}
\* " deletions?\(-\)"
SummaryDelWords == {" deletions(-)", " deletion(-)"}
\* tokens that begin with " insertion" / " deletion"
InsWords == SummaryInsWords \cup {" insertion", " insertions"}
DelWords == SummaryDelWords \cup {" deletion", " deletions"}

At(line, i) == IF i \in 1..Len(line) THEN line[i] ELSE NoTok

\* the last index of the run of digits that starts at i (i - 1 when there is none)
RECURSIVE DigitRunEnd(_, _)
DigitRunEnd(line, i) ==
    IF IsDigit(At(line, i)) THEN DigitRunEnd(line, i + 1) ELSE i - 1

\* the first index at or after i that holds no white space
RECURSIVE SkipSpace(_, _)
SkipSpace(line, i) ==
    IF IsSpace(At(line, i)) THEN SkipSpace(line, i + 1) ELSE i

\* parseInt of a run of digits
RECURSIVE parseInt(_)
parseInt(ds) ==
    IF ds = <<>> THEN 0
    ELSE parseInt(SubSeq(ds, 1, Len(ds) - 1)) * 10 + DigitVal(ds[Len(ds)])

\* `${n}` of a number
RECURSIVE NumToks(_)
NumToks(n) ==
    IF n < 10 THEN <<DigitTok(n)>> ELSE NumToks(n \div 10) \o <<DigitTok(n % 10)>>

\* String.prototype.trim
RECURSIVE trim(_)
trim(s) ==
    IF s = <<>> THEN s
    ELSE IF IsSpace(s[1]) THEN trim(Tail(s))
    ELSE IF IsSpace(s[Len(s)]) THEN trim(SubSeq(s, 1, Len(s) - 1))
    ELSE s

Min(S) == CHOOSE x \in S : \A y \in S : x <= y
Max(S) == CHOOSE x \in S : \A y \in S : x >= y

-----------------------------------------------------------------------------
(* The line-shape matchers.  A match is a record; an absent capture group *)
(* (undefined in JavaScript) is the empty sequence.                        *)

NoMatch == [matched |-> FALSE, g1 |-> <<>>, g2 |-> <<>>, g3 |-> <<>>]

\* a || b on numbers
JsOr(a, b) == IF a # 0 THEN a ELSE b

\* one optional part (?:,\s*(\d+) <word>)? of the summary pattern, tried at p
OptionalCount(line, p, words) ==
    LET q == SkipSpace(line, p + 1)
        r == DigitRunEnd(line, q)
    IN  IF At(line, p) = "," /\ r >= q /\ At(line, r + 1) \in words
        THEN [g |-> SubSeq(line, q, r), next |-> r + 2]
        ELSE [g |-> <<>>, next |-> p]

\* /(\d+) files? changed(?:,\s*(\d+) insertions?\(\+\))?(?:,\s*(\d+) deletions?\(-\))?/
\* the indices where "(\d+) files? changed" matches
summaryStarts(line) ==
    {i \in 1..Len(line) :
        /\ IsDigit(line[i])
        /\ At(line, DigitRunEnd(line, i) + 1) \in FilesChangedWords}

\* the match whose count is line[i..e], a the match of the insertions part
summaryGroups(line, i, e, a) ==
    [matched |-> TRUE, g1 |-> SubSeq(line, i, e), g2 |-> a.g,
     g3 |-> OptionalCount(line, a.next, SummaryDelWords).g]

summaryMatchAt(line, i, e) ==
    summaryGroups(line, i, e, OptionalCount(line, e + 2, SummaryInsWords))

summaryMatch(line) ==
    IF summaryStarts(line) = {} THEN NoMatch
    ELSE summaryMatchAt(line, Min(summaryStarts(line)),
                        DigitRunEnd(line, Min(summaryStarts(line))))

\* \s+\|\s+(\d+) right after index e
PipeAfter(line, e) ==
    LET p == SkipSpace(line, e + 1)
        q == SkipSpace(line, p + 1)
    IN  p > e + 1 /\ At(line, p) = "|" /\ q > p + 1 /\ IsDigit(At(line, q))

\* /^\s*(.+?)\s+\|\s+(\d+)/ : the leading \s* is greedy and gives back, the
\* path group is lazy
\* where the path group can end when \s* has taken s tokens
fileLineEnds(line, s) == {e \in (s + 1)..Len(line) : PipeAfter(line, e)}

\* how many tokens \s* can take
fileLineLeads(line) == {s \in 0..(SkipSpace(line, 1) - 1) : fileLineEnds(line, s) # {}}

\* the match whose path group is line[s+1..e] and whose count starts at q
fileLineGroups(line, s, e, q) ==
    [matched |-> TRUE, g1 |-> SubSeq(line, s + 1, e),
     g2 |-> SubSeq(line, q, DigitRunEnd(line, q)), g3 |-> <<>>]

fileLineMatchAt(line, s, e) ==
    fileLineGroups(line, s, e, SkipSpace(line, SkipSpace(line, e + 1) + 1))

fileLineMatchFrom(line, s) == fileLineMatchAt(line, s, Min(fileLineEnds(line, s)))

fileLineMatch(line) ==
    IF fileLineLeads(line) = {} THEN NoMatch
    ELSE fileLineMatchFrom(line, Max(fileLineLeads(line)))

\* (\d+|-) at index i: its last index, i - 1 when it does not match
NumOrDashEnd(line, i) ==
    IF IsDigit(At(line, i)) THEN DigitRunEnd(line, i)
    ELSE IF At(line, i) = "-" THEN i ELSE i - 1

\* /^(\d+|-)\t(\d+|-)\t(.+)$/
numstatMatch(line) ==
    LET e1 == NumOrDashEnd(line, 1)
        e2 == NumOrDashEnd(line, e1 + 2)
    IN  IF /\ e1 >= 1 /\ At(line, e1 + 1) = TAB
           /\ e2 >= e1 + 2 /\ At(line, e2 + 1) = TAB
           /\ Len(line) >= e2 + 2
        THEN [matched |-> TRUE, g1 |-> SubSeq(line, 1, e1),
              g2 |-> SubSeq(line, e1 + 2, e2),
              g3 |-> SubSeq(line, e2 + 2, Len(line))]
        ELSE NoMatch

\* /^R\d*\t(.+)\t(.+)$/ : the first path group is greedy
renameMatch(line) ==
    LET e == DigitRunEnd(line, 2)
        tabs == {j \in (e + 3)..(Len(line) - 1) : line[j] = TAB}
    IN  IF At(line, 1) = "R" /\ At(line, e + 1) = TAB /\ tabs # {}
        THEN LET j == Max(tabs)
             IN  [matched |-> TRUE, g1 |-> SubSeq(line, e + 2, j - 1),
                  g2 |-> SubSeq(line, j + 1, Len(line)), g3 |-> <<>>]
        ELSE NoMatch

\* /^([AMDC])\t(.+)$/
nsMatch(line) ==
    IF At(line, 1) \in {"A", "M", "D", "C"} /\ At(line, 2) = TAB /\ Len(line) >= 3
    THEN [matched |-> TRUE, g1 |-> <<line[1]>>, g2 |-> SubSeq(line, 3, Len(line)),
          g3 |-> <<>>]
    ELSE NoMatch

\* the first (\d+) <word> of the line, word in words; at or after index from
countStarts(line, from, words) ==
    {i \in from..Len(line) :
        /\ IsDigit(At(line, i))
        /\ At(line, DigitRunEnd(line, i) + 1) \in words}

digitRunAt(line, i) == SubSeq(line, i, DigitRunEnd(line, i))

FirstCount(line, from, words) ==
    IF countStarts(line, from, words) = {} THEN <<>>
    ELSE digitRunAt(line, Min(countStarts(line, from, words)))

\* /(\d+) insertion.*?(\d+) deletion/
insDelStarts(line) ==
    {i \in 1..Len(line) :
        /\ IsDigit(line[i])
        /\ At(line, DigitRunEnd(line, i) + 1) \in InsWords
        /\ FirstCount(line, DigitRunEnd(line, i) + 2, DelWords) # <<>>}

insDelMatchAt(line, i, e) ==
    [matched |-> TRUE, g1 |-> SubSeq(line, i, e),
     g2 |-> FirstCount(line, e + 2, DelWords), g3 |-> <<>>]

insDelMatch(line) ==
    IF insDelStarts(line) = {} THEN NoMatch
    ELSE insDelMatchAt(line, Min(insDelStarts(line)),
                       DigitRunEnd(line, Min(insDelStarts(line))))

\* line.includes('insertion'), line.includes('deletion')
includesInsertion(line) == \E i \in 1..Len(line) : line[i] \in InsWords
includesDeletion(line) == \E i \in 1..Len(line) : line[i] \in DelWords

\* line.startsWith(...)
startsWithDiffGit(line) == At(line, 1) = "diff --git"
startsWithDiff(line) == At(line, 1) \in {"diff --git", "diff"}
startsWithBody(line) ==
    At(line, 1) \in {"+", "-", "@@"} \/ startsWithDiff(line)

-----------------------------------------------------------------------------
(* Program constants *)

\* const maxLines = 200 (index.js:319)
maxLines == 200
\* userCommits.slice(0, 5) (index.js:198)
commitsLimit == 5
\* .slice(0, 3) of topFiles (index.js:303, 151)
topFilesLimit == 3

-----------------------------------------------------------------------------
(* Array helpers *)

\* Array.prototype.sort((a, b) => b.key - a.key): descending, stable; the
\* positions of the array in the order the sort gives, from the keys
sortDescOrder(keys) ==
    LET n == Len(keys)
        before(j, i) ==
            \/ keys[j] > keys[i]
            \/ keys[j] = keys[i] /\ j < i
        pos(i) == Cardinality({j \in 1..n : j # i /\ before(j, i)}) + 1
    IN  [p \in 1..n |-> CHOOSE i \in 1..n : pos(i) = p]

\* the array with its elements in the order the sort gives
permute(items, order) == [p \in 1..Len(order) |-> items[order[p]]]

\* Array.prototype.slice(0, k)
slice0(items, k) == SubSeq(items, 1, IF Len(items) < k THEN Len(items) ELSE k)

\* Map.prototype.set
mapSet(m, k, v) == [x \in (DOMAIN m) \cup {k} |-> IF x = k THEN v ELSE m[x]]

-----------------------------------------------------------------------------
(* The diffs handler's pass over the lines of one commit (index.js:224-271) *)

scanInit ==
    [filesChanged |-> 0, ins |-> 0, del |-> 0,
     fileChanges |-> <<>>, numstatMap |-> <<>>,
     addedFiles |-> <<>>, modifiedFiles |-> <<>>, deletedFiles |-> <<>>,
     renamedFiles |-> <<>>]

\* index.js:235-240 (and 112-117): the overall summary line
summaryMatched(c, m) ==
    IF ~m.matched THEN c
    ELSE [c EXCEPT
            !.filesChanged = JsOr(parseInt(m.g1), c.filesChanged),
            !.ins = IF m.g2 # <<>> THEN JsOr(parseInt(m.g2), c.ins) ELSE c.ins,
            !.del = IF m.g3 # <<>> THEN JsOr(parseInt(m.g3), c.del) ELSE c.del]

applySummary(c, line) == summaryMatched(c, summaryMatch(line))

\* index.js:242-245 (and 120-123): a row of the --stat table
fileLineMatched(c, m) ==
    IF ~m.matched THEN c
    ELSE [c EXCEPT !.fileChanges =
            Append(c.fileChanges, [file |-> trim(m.g1), changes |-> parseInt(m.g2)])]

applyFileLine(c, line) == fileLineMatched(c, fileLineMatch(line))

\* index.js:247-253: a --numstat line
\* index.js:249-250: a dash counts 0
numstatCount(g) == IF g = <<"-">> THEN 0 ELSE parseInt(g)

numstatMatched(c, m) ==
    IF ~m.matched THEN c
    ELSE [c EXCEPT !.numstatMap =
            mapSet(c.numstatMap, trim(m.g3),
                   [insertions |-> numstatCount(m.g1), deletions |-> numstatCount(m.g2),
                    binary |-> m.g1 = <<"-">> \/ m.g2 = <<"-">>])]

applyNumstat(c, line) == numstatMatched(c, numstatMatch(line))

\* index.js:254-270: a --name-status line, the rename pattern first
nameStatusMatched(c, rn, ns) ==
    IF rn.matched
    THEN [c EXCEPT !.renamedFiles =
            Append(c.renamedFiles, [from |-> trim(rn.g1), to |-> trim(rn.g2)])]
    ELSE IF ~ns.matched THEN c
    ELSE IF ns.g1 \in {<<"A">>, <<"C">>}
         THEN [c EXCEPT !.addedFiles = Append(c.addedFiles, trim(ns.g2))]
    ELSE IF ns.g1 = <<"M">>
         THEN [c EXCEPT !.modifiedFiles = Append(c.modifiedFiles, trim(ns.g2))]
    ELSE [c EXCEPT !.deletedFiles = Append(c.deletedFiles, trim(ns.g2))]

applyNameStatus(c, line) == nameStatusMatched(c, renameMatch(line), nsMatch(line))

\* the body of the loop of index.js:233-271
scanLine(c, line) ==
    applyNameStatus(applyNumstat(applyFileLine(applySummary(c, line), line), line), line)

\* the loop over lines[lo..hi], in order; split in halves, the left half
\* evaluated (left = left) before the right one starts, so that the
\* evaluation stays shallow on long texts
RECURSIVE scanLines(_, _, _, _)
scanLines(c, lines, lo, hi) ==
    IF lo > hi THEN c
    ELSE IF lo = hi THEN scanLine(c, lines[lo])
    ELSE LET mid == (lo + hi) \div 2
             left == scanLines(c, lines, lo, mid)
         IN  IF left = left THEN scanLines(left, lines, mid + 1, hi) ELSE left

-----------------------------------------------------------------------------
(* Files detail, extensions, summary (index.js:272-314) *)

noNumstat == [insertions |-> 0, deletions |-> 0, binary |-> FALSE]

\* numstatMap.get(file) || { insertions: 0, deletions: 0, binary: false }
numstatOf(m, file) == IF file \in DOMAIN m THEN m[file] ELSE noNumstat

\* index.js:274-277
detailOf(file, kind, from, to, ns) ==
    [file |-> file, status |-> kind, from |-> from, to |-> to,
     insertions |-> ns.insertions, deletions |-> ns.deletions, binary |-> ns.binary]

pushDetail(m, file, kind) == detailOf(file, kind, <<>>, <<>>, numstatOf(m, file))

\* a lookup that tries the source path first: C8 rules it out
renameNumstatSourceFirst(m, from, to) ==
    IF from \in DOMAIN m THEN m[from] ELSE numstatOf(m, to)

\* index.js:281-284: numstatMap.get(to) || numstatMap.get(from) || {...}
renameNumstat(m, from, to) ==
    IF to \in DOMAIN m THEN m[to] ELSE numstatOf(m, from)

renameDetail(m, r) == detailOf(r.to, "R", r.from, r.to, renameNumstat(m, r.from, r.to))

\* index.js:273-284
detailFilesOf(c) ==
    [i \in 1..Len(c.addedFiles) |-> pushDetail(c.numstatMap, c.addedFiles[i], "A")]
    \o [i \in 1..Len(c.modifiedFiles) |-> pushDetail(c.numstatMap, c.modifiedFiles[i], "M")]
    \o [i \in 1..Len(c.deletedFiles) |-> pushDetail(c.numstatMap, c.deletedFiles[i], "D")]
    \o [i \in 1..Len(c.renamedFiles) |-> renameDetail(c.numstatMap, c.renamedFiles[i])]

\* df.file.split('/').pop() || ''
lastSegment(file) ==
    LET slashes == {i \in 1..Len(file) : file[i] = "/"}
    IN  IF slashes = {} THEN file ELSE SubSeq(file, Max(slashes) + 1, Len(file))

\* index.js:288: (...).split('.').slice(1).join('.') || 'noext'
dotsOf(seg) == {i \in 1..Len(seg) : seg[i] = "."}

\* seg.split('.').slice(1).join('.')
afterFirstDot(seg) ==
    IF dotsOf(seg) = {} THEN <<>> ELSE SubSeq(seg, Min(dotsOf(seg)) + 1, Len(seg))

\* rest || 'noext'
orNoext(rest) == IF rest = <<>> THEN <<"noext">> ELSE rest

extOf(file) == orNoext(afterFirstDot(lastSegment(file)))

\* index.js:286-293
bucketOf(acc, ext) ==
    IF ext \in DOMAIN acc THEN acc[ext]
    ELSE [files |-> 0, insertions |-> 0, deletions |-> 0]

addToBucket(old, df) ==
    [files |-> old.files + 1,
     insertions |-> old.insertions + df.insertions,
     deletions |-> old.deletions + df.deletions]

\* the body of the loop of index.js:287-293
addToExtension(acc, df, ext) == mapSet(acc, ext, addToBucket(bucketOf(acc, ext), df))

RECURSIVE byExtensionOf(_, _, _)
byExtensionOf(acc, detailFiles, k) ==
    IF k > Len(detailFiles) THEN acc
    ELSE byExtensionOf(addToExtension(acc, detailFiles[k], extOf(detailFiles[k].file)),
                       detailFiles, k + 1)

changesOf(fileChanges) == [i \in 1..Len(fileChanges) |-> fileChanges[i].changes]
volumeOf(detailFiles) ==
    [i \in 1..Len(detailFiles) |-> detailFiles[i].insertions + detailFiles[i].deletions]

\* fileChanges.sort((a,b)=>b.changes-a.changes).slice(0,3).map(x=>x.file)
\* .map(x => x.file)
filesOf(top) == [i \in 1..Len(top) |-> top[i].file]

\* a view without the slice: C9 rules it out
topFilesUncapped(fileChanges) ==
    filesOf(permute(fileChanges, sortDescOrder(changesOf(fileChanges))))

topFilesOf(fileChanges) ==
    filesOf(slice0(permute(fileChanges, sortDescOrder(changesOf(fileChanges))), topFilesLimit))

\* index.js:295-299 (and 153-158): the parts of summary.text, joined by ', '
summaryText(filesChanged, ins, del) ==
    (IF filesChanged # 0 THEN <<NumToks(filesChanged) \o <<" files changed">>>> ELSE <<>>)
    \o (IF ins # 0 THEN <<<<"+">> \o NumToks(ins)>> ELSE <<>>)
    \o (IF del # 0 THEN <<<<"U+2212">> \o NumToks(del)>> ELSE <<>>)

\* [...].filter(Boolean).join(', ') (index.js:299): the text as one line
RECURSIVE joinParts(_)
joinParts(parts) ==
    IF parts = <<>> THEN <<>>
    ELSE IF Len(parts) = 1 THEN parts[1]
    ELSE parts[1] \o <<",", " ">> \o joinParts(Tail(parts))

\* index.js:294-314
summaryWith(c, detailFiles) ==
        [text |-> summaryText(c.filesChanged, c.ins, c.del),
         filesChanged |-> JsOr(c.filesChanged, Len(c.fileChanges)),
         insertions |-> c.ins,
         deletions |-> c.del,
         topFiles |-> topFilesOf(c.fileChanges),
         counts |-> [addedFiles |-> Len(c.addedFiles),
                     modifiedFiles |-> Len(c.modifiedFiles),
                     deletedFiles |-> Len(c.deletedFiles),
                     renamedFiles |-> Len(c.renamedFiles)],
         files |-> permute(detailFiles, sortDescOrder(volumeOf(detailFiles))),
         byExtension |-> byExtensionOf(<<>>, detailFiles, 1)]

summaryOf(c) == summaryWith(c, detailFilesOf(c))

-----------------------------------------------------------------------------
(* Diff body capture (index.js:316-341) *)

NoChangesLine == <<"// No code changes to display (possibly binary files or large changes)">>
TruncatedLine == <<"... (output truncated - too many changes)">>

captureInit == [changes |-> <<>>, inDiff |-> FALSE, lineCount |-> 0]

\* index.js:327: inDiff && lineCount < maxLines
\* a cap that is off by one: C3 rules it out
mayRetainOneMore(st) == st.inDiff /\ st.lineCount <= maxLines

mayRetain(st) == st.inDiff /\ st.lineCount < maxLines

\* the body of the loop of index.js:321-335
\* index.js:323-325
enterDiff(st, line) == IF startsWithDiffGit(line) THEN [st EXCEPT !.inDiff = TRUE] ELSE st

\* index.js:327-334
retainLine(st, line) ==
    IF mayRetain(st) /\ startsWithBody(line)
    THEN [st EXCEPT !.changes = Append(st.changes, line),
                    !.lineCount = st.lineCount + 1]
    ELSE st

captureLine(st, line) == retainLine(enterDiff(st, line), line)

\* the loop over lines[lo..hi], in order; split in halves, the left half
\* evaluated (left = left) before the right one starts, so that the
\* evaluation stays shallow on long texts
RECURSIVE captureLines(_, _, _, _)
captureLines(st, lines, lo, hi) ==
    IF lo > hi THEN st
    ELSE IF lo = hi THEN captureLine(st, lines[lo])
    ELSE LET mid == (lo + hi) \div 2
             left == captureLines(st, lines, lo, mid)
         IN  IF left = left THEN captureLines(left, lines, mid + 1, hi) ELSE left

\* index.js:337-341
closeChanges(st) ==
    IF Len(st.changes) = 0 THEN <<NoChangesLine>>
    ELSE IF st.lineCount >= maxLines THEN Append(st.changes, TruncatedLine)
    ELSE st.changes

changesOfCommit(lines) == closeChanges(captureLines(captureInit, lines, 1, Len(lines)))

\* index.js:220-349: the entry of a commit whose text was fetched
diffEntry(hash, lines) ==
    [commit |-> hash,
     summary |-> summaryOf(scanLines(scanInit, lines, 1, Len(lines))),
     changes |-> changesOfCommit(lines)]

ErrorChanges(msg) ==
    <<<<"// Error loading changes: ", msg>>,
      <<"// This commit may have too many changes or contain binary files">>>>

\* index.js:353-373: the entry of a commit whose fetch timed out or threw
errorEntry(hash, msg) ==
    [commit |-> hash,
     summary |-> [text |-> <<<<"Error loading summary: ", msg>>>>,
                  filesChanged |-> 0, insertions |-> 0, deletions |-> 0,
                  topFiles |-> <<>>],
     changes |-> ErrorChanges(msg)]

-----------------------------------------------------------------------------
(* The contributors handler's pass over the lines of one commit            *)
(* (index.js:102-164)                                                      *)

contribInit ==
    [filesChanged |-> 0, ins |-> 0, del |-> 0, fileChanges |-> <<>>,
     additions |-> 0, deletions |-> 0]

\* index.js:126-136: what one line adds to the contributor's totals
insDelMatched(line, m) ==
    IF m.matched
    THEN [additions |-> parseInt(m.g1), deletions |-> parseInt(m.g2)]
    ELSE IF includesInsertion(line)
    THEN [additions |-> parseInt(FirstCount(line, 1, InsWords)), deletions |-> 0]
    ELSE IF includesDeletion(line)
    THEN [additions |-> 0, deletions |-> parseInt(FirstCount(line, 1, DelWords))]
    ELSE [additions |-> 0, deletions |-> 0]

lineTotals(line) == insDelMatched(line, insDelMatch(line))

\* the body of the loop of index.js:110-137
addTotals(c, t) ==
    [c EXCEPT !.additions = c.additions + t.additions,
              !.deletions = c.deletions + t.deletions]

contribLine(c, line) ==
    addTotals(applyFileLine(applySummary(c, line), line), lineTotals(line))

\* the loop over lines[lo..hi], in order; split in halves, the left half
\* evaluated (left = left) before the right one starts, so that the
\* evaluation stays shallow on long texts
RECURSIVE contribLines(_, _, _, _)
contribLines(c, lines, lo, hi) ==
    IF lo > hi THEN c
    ELSE IF lo = hi THEN contribLine(c, lines[lo])
    ELSE LET mid == (lo + hi) \div 2
             left == contribLines(c, lines, lo, mid)
         IN  IF left = left THEN contribLines(left, lines, mid + 1, hi) ELSE left

\* index.js:102-164: the totals a fetched commit adds, and its compact summary
\* index.js:146-164: the compact summary, beside the totals the lines added
scanResult(c) ==
    [additions |-> c.additions, deletions |-> c.deletions,
     summary |-> [text |-> summaryText(c.filesChanged, c.ins, c.del),
                  filesChanged |-> JsOr(c.filesChanged, Len(c.fileChanges)),
                  insertions |-> c.ins, deletions |-> c.del,
                  topFiles |-> topFilesOf(c.fileChanges)]]

scanCommit(lines) == scanResult(contribLines(contribInit, lines, 1, Len(lines)))

-----------------------------------------------------------------------------
(* Input texts *)

\* bounds of the input texts
MaxTextLines == 3
MaxStatRows == 4
MaxExtraBody == 2

\* paths: a.j, s/b.t.j, m, d.c/e
pathA == <<"a", ".", "j">>
pathB == <<"s", "/", "b", ".", "t", ".", "j">>
pathM == <<"m">>
pathE == <<"d", ".", "c", "/", "e">>

SummaryLine(f, word, i, d) ==
    <<" ">> \o f \o <<word>>
    \o (IF i = <<>> THEN <<>> ELSE <<",", " ">> \o i \o <<" insertions(+)">>)
    \o (IF d = <<>> THEN <<>> ELSE <<",", " ">> \o d \o <<" deletions(-)">>)

StatRow(path, n) == <<" ">> \o path \o <<" ", "|", " ">> \o n \o <<" ", "+">>
NumstatLine(i, d, path) == i \o <<TAB>> \o d \o <<TAB>> \o path
NameStatusLine(st, path) == <<st, TAB>> \o path
RenameLine(score, from, to) == <<"R">> \o score \o <<TAB>> \o from \o <<TAB>> \o to

\* lines that carry counts: summary lines, and body lines that quote them
CountLines ==
    { SummaryLine(<<"2">>, " files changed", <<"5">>, <<"1">>),
      SummaryLine(<<"1">>, " file changed", <<>>, <<"4">>),
      SummaryLine(<<"1">>, " file changed", <<"1", "2">>, <<>>),
      SummaryLine(<<"1">>, " file changed", <<"0">>, <<"0">>),
      SummaryLine(<<"3">>, " files changed", <<>>, <<>>),
      <<"+", "0", " files changed">>,
      <<"+", "x", " ", "3", " insertions", " ", "x">>,
      <<"-", "2", " deletions">>,
      <<" ", "x", " insertion">> }

\* the --numstat lines of the inputs: a binary file prints dashes
NumstatSpecs ==
    { [path |-> pathA, insertions |-> 5, deletions |-> 2, binary |-> FALSE],
      [path |-> pathB, insertions |-> 1, deletions |-> 0, binary |-> FALSE],
      [path |-> pathM, insertions |-> 0, deletions |-> 0, binary |-> TRUE],
      [path |-> pathE, insertions |-> 3, deletions |-> 13, binary |-> FALSE] }

NumstatLineOf(x) ==
    NumstatLine(IF x.binary THEN <<"-">> ELSE NumToks(x.insertions),
                IF x.binary THEN <<"-">> ELSE NumToks(x.deletions), x.path)

\* the --name-status lines of the inputs
NameStatusSpecs ==
    { [status |-> "M", path |-> pathA], [status |-> "A", path |-> pathM],
      [status |-> "D", path |-> pathB], [status |-> "C", path |-> pathE] }

NameStatusLineOf(x) == NameStatusLine(x.status, x.path)

\* the rename lines of the inputs, with and without a score
RenameSpecs ==
    { [score |-> <<"1", "0", "0">>, from |-> pathA, to |-> pathB],
      [score |-> <<>>, from |-> pathM, to |-> pathE] }

RenameLineOf(x) == RenameLine(x.score, x.from, x.to)

\* lines of the --numstat and --name-status tables
TableLines ==
    {NumstatLineOf(x) : x \in NumstatSpecs}
    \cup {NameStatusLineOf(x) : x \in NameStatusSpecs}
    \cup {RenameLineOf(x) : x \in RenameSpecs}

\* the rows of the --stat table of the inputs
StatRowSpecs ==
    { [path |-> pathA, changes |-> 7], [path |-> pathB, changes |-> 3],
      [path |-> pathM, changes |-> 12], [path |-> pathE, changes |-> 3] }

StatRowOf(x) == StatRow(x.path, NumToks(x.changes))

StatRows == {StatRowOf(x) : x \in StatRowSpecs}

\* lines of a diff body
DiffGitLine == <<"diff --git", " ", "a", "/", "m", " ", "b", "/", "m">>
HunkLine == <<"@@", " ", "-", "1", " ", "+", "1", " ", "@@">>
PlusLine == <<"+", "x">>
MinusLine == <<"-", "x">>
ContextLine == <<" ", "x">>

SeqsUpTo(S, n) == UNION {[1..k -> S] : k \in 0..n}

\* a diff of n retainable lines, a context line after every cyc of them
LongBody(n, cyc) ==
    [k \in 1..(n + n \div cyc) |->
        IF k % (cyc + 1) = 0 THEN ContextLine
        ELSE IF k = 1 THEN DiffGitLine
        ELSE IF k % 3 = 0 THEN HunkLine
        ELSE IF k % 3 = 1 THEN PlusLine ELSE MinusLine]

\* diffs around the cap of maxLines retained lines
LongTexts ==
    {LongBody(n, cyc) : n \in (maxLines - 1)..(maxLines + MaxExtraBody), cyc \in {7, maxLines + 5}}

\* a whole "git show": stat table, summary, numstat, name-status, body
SampleText1 ==
    << <<"commit", " ", "x">>,
       StatRow(pathA, <<"7">>),
       SummaryLine(<<"1">>, " file changed", <<"5">>, <<"2">>),
       NumstatLine(<<"5">>, <<"2">>, pathA),
       NameStatusLine("M", pathA),
       <<"diff --git", " ", "a", "/", "a", ".", "j">>,
       HunkLine, PlusLine, MinusLine >>

SampleText2 ==
    << StatRowOf([path |-> pathM, changes |-> 12]),
       SummaryLine(<<"1">>, " file changed", <<>>, <<"1", "2">>) >>

\* a commit whose stat table and name-status table name different files
SampleText3 ==
    << StatRowOf([path |-> pathA, changes |-> 7]),
       StatRowOf([path |-> pathB, changes |-> 3]),
       SummaryLine(<<"2">>, " files changed", <<"5">>, <<"5">>),
       NumstatLineOf([path |-> pathE, insertions |-> 3, deletions |-> 13, binary |-> FALSE]),
       NameStatusLineOf([status |-> "C", path |-> pathE]) >>

\* the header of the diff block of a file under node_modules
VendorDiffGitLine ==
    <<"diff --git", " ", "a", "/", "node_modules", "/", "x", " ",
      "b", "/", "node_modules", "/", "x">>

\* a commit that touches only a file under node_modules
SampleText4 ==
    << SummaryLine(<<"1">>, " file changed", <<"1">>, <<>>),
       VendorDiffGitLine, HunkLine, PlusLine >>

\* a commit that touches a file of the project and one under node_modules
SampleText5 ==
    << SummaryLine(<<"2">>, " files changed", <<"1">>, <<"1">>),
       DiffGitLine, HunkLine, PlusLine,
       VendorDiffGitLine, HunkLine, MinusLine >>

SampleTexts == {SampleText1, SampleText2, SampleText3, SampleText4, SampleText5}

Texts ==
    SeqsUpTo(CountLines, MaxTextLines)
    \cup SeqsUpTo(TableLines, MaxTextLines)
    \cup SeqsUpTo(StatRows, MaxStatRows)
    \cup SeqsUpTo({DiffGitLine, PlusLine, ContextLine}, MaxTextLines)
    \cup LongTexts
    \cup SampleTexts

-----------------------------------------------------------------------------
(* The two parsers applied to one text *)

ServerIdle ==
    /\ repoDir = <<>>
    /\ git = "null"
    /\ reader = <<>>
    /\ admin = <<>>

InitParse ==
    /\ ServerIdle
    /\ text \in Texts
    /\ parsed = <<>>
    /\ scanned = <<>>

\* the diffs handler builds the entry of the commit
SummarizeCommit ==
    /\ parsed = <<>>
    /\ parsed' = <<diffEntry(1, text)>>
    /\ UNCHANGED <<text, scanned, serverVars>>

\* the contributors handler adds the commit to the totals
ScanCommit ==
    /\ scanned = <<>>
    /\ scanned' = <<scanCommit(text)>>
    /\ UNCHANGED <<text, parsed, serverVars>>

NextParse == SummarizeCommit \/ ScanCommit

SpecParse == InitParse /\ [][NextParse]_vars

-----------------------------------------------------------------------------
(* Repositories.  A commit of a history is [hash, author_name]; hashes are *)
(* numbers that differ within the seven characters the diffs handler       *)
(* keeps.  repoDir is <<>> when REPO_DIR does not exist, and else holds    *)
(* the history of the checkout and whether the clone has completed.        *)

\* bounds of the histories
MaxCommits == 3

Authors == {"alice", "bob", "carol"}
Usernames == Authors \cup {"nobody"}

HistoryOf(authors) == [i \in 1..Len(authors) |-> [hash |-> i, author_name |-> authors[i]]]

\* every history of up to MaxCommits commits, the histories of two
\* authors that are one commit longer than the diffs handler's limit, and
\* two histories whose busiest author is the last one seen
Histories ==
    {HistoryOf(a) : a \in SeqsUpTo(Authors, MaxCommits)}
    \cup {HistoryOf(a) : a \in [1..(commitsLimit + 1) -> {"alice", "bob"}]}
    \cup {HistoryOf(<<"carol", "bob", "alice", "alice">>),
          HistoryOf(<<"bob", "carol", "bob", "alice", "carol", "alice", "alice">>)}

Urls == {"u1", "u2"}

\* what a clone of the url fetches
remoteHistory(url) ==
    IF url = "u1"
    THEN << [hash |-> 1, author_name |-> "alice"],
            [hash |-> 2, author_name |-> "bob"],
            [hash |-> 3, author_name |-> "alice"] >>
    ELSE << [hash |-> 4, author_name |-> "bob"],
            [hash |-> 2, author_name |-> "bob"] >>

\* the text "git show" prints for a commit
showText(hash) ==
    IF hash % 5 = 1 THEN SampleText1
    ELSE IF hash % 5 = 2 THEN SampleText2
    ELSE IF hash % 5 = 3 THEN SampleText3
    ELSE IF hash % 5 = 4 THEN SampleText4 ELSE SampleText5

hashesOf(history) == {history[i].hash : i \in 1..Len(history)}

\* fs.existsSync(REPO_DIR)
existsSync == repoDir # <<>>

\* an initGit that does not look for the directory: C5 rules it out
initGitUnchecked == "simpleGit"

\* index.js:17-28: the value initGit leaves in git; it returns true iff
\* that is a handle
initGit == IF existsSync THEN "simpleGit" ELSE "null"

TypeErrorMsg == "Cannot read properties of null (reading 'show')"
TimeoutMsg == "Diff fetch timeout"
GitErrorMsg == "git error"

\* how a "git show" that was started can end: by the timeout of the race,
\* by an error of the process, or with the text when the checkout holds the
\* commit
FetchOutcomes(hash) ==
    {"timeout", "error"}
    \cup (IF existsSync /\ hash \in hashesOf(repoDir[1].history) THEN {"ok"} ELSE {})

\* how "git log" can end: with the history of the checkout, or by an error
LogOutcomes ==
    {"error"} \cup (IF existsSync THEN {"ok"} ELSE {})

-----------------------------------------------------------------------------
(* Responses *)

NoBody == <<>>
okResponse(body) == [status |-> 200, error |-> "", body |-> body]
errorResponse(status, error) == [status |-> status, error |-> error, body |-> NoBody]
NoResponse == [status |-> 0, error |-> "", body |-> NoBody]

\* index.js:61, 188
NoRepoResponse == errorResponse(400, "No repository cloned yet")

\* the entry of index.js:377-382; 0 stands for the commit 'N/A'
NoCommitsEntry ==
    [commit |-> 0, changes |-> << <<"// No commits available">> >>]

-----------------------------------------------------------------------------
(* GET /api/contributors (index.js:58-180) *)

newContributor(username) ==
    [username |-> username, commits |-> 0, additions |-> 0, deletions |-> 0,
     commitHashes |-> <<>>, commitMessages |-> <<>>]

hasUser(map, username) == \E i \in 1..Len(map) : map[i].username = username
indexOfUser(map, username) == CHOOSE i \in 1..Len(map) : map[i].username = username

\* index.js:70-91: the part of an iteration before the fetch
\* index.js:72-81
ensureContributor(map, username) ==
    IF hasUser(map, username) THEN map ELSE Append(map, newContributor(username))

\* a count that leaves the hash out of commitHashes: C2 rules it out
countAtWithoutHash(map, i, hash) ==
    [map EXCEPT ![i].commits = @ + 1,
                ![i].commitMessages = Append(@, [hash |-> hash, summary |-> <<>>])]

\* index.js:83-91
countAt(map, i, hash) ==
    [map EXCEPT ![i].commits = @ + 1,
                ![i].commitHashes = Append(@, hash),
                ![i].commitMessages = Append(@, [hash |-> hash, summary |-> <<>>])]

countIn(map, commit) == countAt(map, indexOfUser(map, commit.author_name), commit.hash)

countCommit(map, commit) == countIn(ensureContributor(map, commit.author_name), commit)

\* index.js:102-164: the part of an iteration after a fetch that succeeded
addStatsAt(map, i, s) ==
    [map EXCEPT ![i].additions = @ + s.additions,
                ![i].deletions = @ + s.deletions,
                ![i].commitMessages[Len(map[i].commitMessages)].summary = <<s.summary>>]

addStats(map, commit, lines) ==
    addStatsAt(map, indexOfUser(map, commit.author_name), scanCommit(lines))

commitsOfContributor(map) == [i \in 1..Len(map) |-> map[i].commits]

\* a sort that puts the later of two equal contributors first: C4 rules it out
sortContributorsUnstable(map) ==
    permute(map, [p \in 1..Len(map) |->
                     Len(map) + 1 - sortDescOrder([i \in 1..Len(map) |-> map[Len(map) + 1 - i].commits])[p]])

\* index.js:171-172
sortContributors(map) == permute(map, sortDescOrder(commitsOfContributor(map)))

\* the handler from the top of iteration r.k up to its next await: with a
\* null handle git.show(...) throws inside the try, the catch of
\* index.js:165 logs and the loop goes on; after the last commit the
\* handler sorts and responds
RECURSIVE contribAdvance(_, _)
contribAdvance(r, g) ==
    IF r.k > Len(r.log)
    THEN [r EXCEPT !.pc = "done", !.response = okResponse(sortContributors(r.map))]
    ELSE IF g = "null"
    THEN contribAdvance([r EXCEPT !.map = countCommit(r.map, r.log[r.k]),
                                  !.k = r.k + 1], g)
    ELSE [r EXCEPT !.map = countCommit(r.map, r.log[r.k]), !.pc = "show"]

\* index.js:93-168: the fetch of commit r.k has ended
contribFetched(r, out) ==
    IF out = "ok"
    THEN [r EXCEPT !.map = addStats(r.map, r.log[r.k], showText(r.log[r.k].hash)),
                   !.k = r.k + 1]
    ELSE [r EXCEPT !.k = r.k + 1]

-----------------------------------------------------------------------------
(* GET /api/contributor/:username/diffs (index.js:183-396) *)

\* log.all.filter(c => c.author_name === username)
RECURSIVE userCommitsOf(_, _)
userCommitsOf(log, username) ==
    IF log = <<>> THEN <<>>
    ELSE (IF log[1].author_name = username THEN <<log[1]>> ELSE <<>>)
         \o userCommitsOf(Tail(log), username)

\* index.js:193-198
commitsToProcess(log, username) == slice0(userCommitsOf(log, username), commitsLimit)

\* a catch that logs the failure and adds no entry: C1 rules it out
diffsCatchSkipping(diffs, commit, msg) == diffs

\* index.js:353-373: the catch of one commit
diffsCatch(diffs, commit, msg) == Append(diffs, errorEntry(commit.hash, msg))

\* index.js:376-386
diffsResponse(diffs) ==
    IF Len(diffs) = 0 THEN okResponse(<<NoCommitsEntry>>) ELSE okResponse(diffs)

\* the handler from the top of iteration r.k up to its next await
RECURSIVE diffsAdvance(_, _)
diffsAdvance(r, g) ==
    IF r.k > Len(r.commits)
    THEN [r EXCEPT !.pc = "done", !.response = diffsResponse(r.diffs)]
    ELSE IF g = "null"
         THEN diffsAdvance([r EXCEPT !.diffs = diffsCatch(r.diffs, r.commits[r.k], TypeErrorMsg),
                                     !.k = r.k + 1], g)
         ELSE [r EXCEPT !.pc = "show"]

\* index.js:200-373: the fetch of commit r.k has ended
diffsTry(diffs, commit, out) ==
    IF out = "ok"
    THEN Append(diffs, diffEntry(commit.hash, showText(commit.hash)))
    ELSE diffsCatch(diffs, commit, IF out = "timeout" THEN TimeoutMsg ELSE GitErrorMsg)

diffsFetched(r, out) ==
    [r EXCEPT !.diffs = diffsTry(r.diffs, r.commits[r.k], out), !.k = r.k + 1]

-----------------------------------------------------------------------------
(* The request in progress *)

newReader(kind, username) ==
    [kind |-> kind, username |-> username, pc |-> "log", log |-> <<>>,
     commits |-> <<>>, k |-> 1, map |-> <<>>, diffs |-> <<>>,
     response |-> NoResponse]

respond(r, response) == [r EXCEPT !.pc = "done", !.response = response]

\* index.js:58-65: initGit(), then git.log() is awaited
StartContributors ==
    /\ reader = <<>>
    /\ git' = initGit
    /\ reader' = IF initGit = "null"
                 THEN <<respond(newReader("contributors", ""), NoRepoResponse)>>
                 ELSE <<newReader("contributors", "")>>
    /\ UNCHANGED <<repoDir, admin, parseVars>>

\* index.js:183-192
StartDiffs ==
    /\ reader = <<>>
    /\ \E username \in Usernames :
          /\ git' = initGit
          /\ reader' = IF initGit = "null"
                       THEN <<respond(newReader("diffs", username), NoRepoResponse)>>
                       ELSE <<newReader("diffs", username)>>
    /\ UNCHANGED <<repoDir, admin, parseVars>>

\* index.js:176-179, 388-395: the catch of the handler
failureResponse(kind) ==
    IF kind = "contributors" THEN errorResponse(500, "Failed to fetch contributors")
    ELSE errorResponse(500, "Failed to fetch code changes")

\* index.js:65-69, 192-200: the handler once git.log() has ended
logged(r, out, g) ==
    IF out = "error" THEN respond(r, failureResponse(r.kind))
    ELSE IF r.kind = "contributors"
    THEN contribAdvance([r EXCEPT !.log = repoDir[1].history], g)
    ELSE diffsAdvance([r EXCEPT !.log = repoDir[1].history,
                                !.commits = commitsToProcess(repoDir[1].history, r.username)],
                      g)

\* git.log() ends (index.js:65, 192) and the handler runs to its next await
LogResolve ==
    /\ reader # <<>>
    /\ reader[1].pc = "log"
    /\ \E out \in LogOutcomes : reader' = <<logged(reader[1], out, git)>>
    /\ UNCHANGED <<repoDir, git, admin, parseVars>>

\* the commit whose text the request is waiting for
currentCommit(r) == IF r.kind = "contributors" THEN r.log[r.k] ELSE r.commits[r.k]

\* the handler once the fetch of the current commit has ended
fetched(r, out, g) ==
    IF r.kind = "contributors"
    THEN contribAdvance(contribFetched(r, out), g)
    ELSE diffsAdvance(diffsFetched(r, out), g)

\* the git.show(...) of the current commit ends (index.js:95-100, 205-218)
\* and the handler runs to its next await
ShowResolve ==
    /\ reader # <<>>
    /\ reader[1].pc = "show"
    /\ \E out \in FetchOutcomes(currentCommit(reader[1]).hash) :
          reader' = <<fetched(reader[1], out, git)>>
    /\ UNCHANGED <<repoDir, git, admin, parseVars>>

\* the response has been sent; the next request may come
ReaderDone ==
    /\ reader # <<>>
    /\ reader[1].pc = "done"
    /\ reader' = <<>>
    /\ UNCHANGED <<repoDir, git, admin, parseVars>>

ParseIdle ==
    /\ text = <<>>
    /\ parsed = <<>>
    /\ scanned = <<>>

\* the server starts with a checkout left by an earlier run: the callback
\* of app.listen calls initGit (index.js:416-420)
InitHist ==
    /\ \E h \in Histories : repoDir = <<[history |-> h, complete |-> TRUE]>>
    /\ git = "simpleGit"
    /\ reader = <<>>
    /\ admin = <<>>
    /\ ParseIdle

NextHist == StartContributors \/ StartDiffs \/ LogResolve \/ ShowResolve \/ ReaderDone

\* requests handled one after the other on one checkout
SpecHist == InitHist /\ [][NextHist]_vars

-----------------------------------------------------------------------------
(* POST /api/clone (index.js:31-55) and DELETE /api/delete (index.js:399-413) *)

newAdmin(kind, url, pc) == [kind |-> kind, url |-> url, pc |-> pc, response |-> NoResponse]

\* index.js:32-46: no url is a 400; an existing checkout is removed first
StartClone ==
    /\ admin = <<>>
    /\ \E url \in Urls \cup {""} :
          admin' = IF url = ""
                   THEN <<respond(newAdmin("clone", url, "done"),
                                  errorResponse(400, "Repository URL is required"))>>
                   ELSE IF existsSync THEN <<newAdmin("clone", url, "removing")>>
                   ELSE <<newAdmin("clone", url, "cloning")>>
    /\ UNCHANGED <<repoDir, git, reader, parseVars>>

\* index.js:41-46: fs.remove has ended; git = null, and the clone is started
CloneRemoved ==
    /\ admin # <<>>
    /\ admin[1].kind = "clone" /\ admin[1].pc = "removing"
    /\ repoDir' = <<>>
    /\ git' = "null"
    /\ admin' = <<[admin[1] EXCEPT !.pc = "cloning"]>>
    /\ UNCHANGED <<reader, parseVars>>

\* the running "git clone" creates REPO_DIR and fills it
CloneCreates ==
    /\ admin # <<>>
    /\ admin[1].kind = "clone" /\ admin[1].pc = "cloning"
    /\ ~existsSync
    /\ repoDir' = <<[history |-> remoteHistory(admin[1].url), complete |-> FALSE]>>
    /\ admin' = <<[admin[1] EXCEPT !.pc = "fetching"]>>
    /\ UNCHANGED <<git, reader, parseVars>>

\* index.js:46-50: the clone has ended well; initGit()
CloneResolve ==
    /\ admin # <<>>
    /\ admin[1].kind = "clone" /\ admin[1].pc = "fetching"
    /\ repoDir' = <<[repoDir[1] EXCEPT !.complete = TRUE]>>
    /\ git' = "simpleGit"
    /\ admin' = <<respond(admin[1], okResponse(<<"Repository Fetched successfully">>))>>
    /\ UNCHANGED <<reader, parseVars>>

\* index.js:51-54: the clone has failed; "git clone" leaves no directory
CloneFails ==
    /\ admin # <<>>
    /\ admin[1].kind = "clone" /\ admin[1].pc \in {"cloning", "fetching"}
    /\ repoDir' = <<>>
    /\ admin' = <<respond(admin[1], errorResponse(500, "Failed to clone repository"))>>
    /\ UNCHANGED <<git, reader, parseVars>>

\* index.js:401-408
StartDelete ==
    /\ admin = <<>>
    /\ admin' = IF existsSync THEN <<newAdmin("delete", "", "removing")>>
                ELSE <<respond(newAdmin("delete", "", "done"),
                               errorResponse(404, "No repository to delete"))>>
    /\ UNCHANGED <<repoDir, git, reader, parseVars>>

\* index.js:402-405: fs.remove has ended; git = null
DeleteRemoved ==
    /\ admin # <<>>
    /\ admin[1].kind = "delete" /\ admin[1].pc = "removing"
    /\ repoDir' = <<>>
    /\ git' = "null"
    /\ admin' = <<respond(admin[1], okResponse(<<"Repository deleted successfully">>))>>
    /\ UNCHANGED <<reader, parseVars>>

\* the response has been sent; the next clone or delete may come
AdminDone ==
    /\ admin # <<>>
    /\ admin[1].pc = "done"
    /\ admin' = <<>>
    /\ UNCHANGED <<repoDir, git, reader, parseVars>>

\* a fresh server: no checkout, and the initGit() of app.listen leaves git null
Init ==
    /\ ServerIdle
    /\ ParseIdle

Next ==
    \/ StartContributors \/ StartDiffs \/ LogResolve \/ ShowResolve \/ ReaderDone
    \/ StartClone \/ CloneRemoved \/ CloneCreates \/ CloneResolve \/ CloneFails
    \/ StartDelete \/ DeleteRemoved \/ AdminDone

\* the server: one contributors or diffs request and one clone or delete
\* request at a time, interleaved at their awaits
Spec == Init /\ [][Next]_vars

-----------------------------------------------------------------------------
(* Properties of the requests on one checkout (SpecHist) *)

RECURSIVE SumSeq(_)
SumSeq(s) == IF s = <<>> THEN 0 ELSE Head(s) + SumSeq(Tail(s))

\* the positions of the log, in order, that satisfy P
PositionsOf(n, P(_)) ==
    LET S == {j \in 1..n : P(j)}
    IN  [i \in 1..Cardinality(S) |-> CHOOSE j \in S : Cardinality({l \in S : l <= j}) = i]

\* the entry says that the commit's text could not be fetched
isFailedEntry(e) ==
    \E msg \in {TypeErrorMsg, TimeoutMsg, GitErrorMsg} : e.changes = ErrorChanges(msg)

diffsReader == reader # <<>> /\ reader[1].kind = "diffs"

\* C1: whatever fetches time out or fail, the diffs handler holds exactly
\* one entry for every commit it has processed, in the order of the
\* history; the entry of a failing commit carries zero filesChanged,
\* insertions and deletions and the placeholder lines, the entry of any
\* other commit is the parse of its text, and the response lists all of
\* them.
C1_OneEntryPerCommit ==
    diffsReader =>
        LET r == reader[1]
            mine(j) == r.log[j].author_name = r.username
            own == PositionsOf(Len(r.log), mine)
        IN  /\ Len(r.commits) = Min({Len(own), commitsLimit})
            /\ \A i \in 1..Len(r.commits) : r.commits[i] = r.log[own[i]]
            /\ Len(r.diffs) = r.k - 1
            /\ \A i \in 1..Len(r.diffs) :
                  /\ r.diffs[i].commit = r.commits[i].hash
                  /\ IF isFailedEntry(r.diffs[i])
                     THEN /\ r.diffs[i].summary.filesChanged = 0
                          /\ r.diffs[i].summary.insertions = 0
                          /\ r.diffs[i].summary.deletions = 0
                          /\ Len(r.diffs[i].changes) = 2
                     ELSE r.diffs[i] = diffEntry(r.commits[i].hash, showText(r.commits[i].hash))
            /\ (r.pc = "done" /\ r.response.status = 200) =>
                  /\ Len(r.diffs) = Len(r.commits)
                  /\ r.commits # <<>> => r.response.body = r.diffs

\* a response of commitsLimit entries where a commit after a failing one
\* was parsed
C1_Witness ==
    /\ diffsReader
    /\ reader[1].pc = "done"
    /\ reader[1].response.status = 200
    /\ Len(reader[1].response.body) = commitsLimit
    /\ Len(reader[1].log) > commitsLimit
    /\ \E i, j \in 1..commitsLimit :
          /\ i < j
          /\ isFailedEntry(reader[1].response.body[i])
          /\ ~isFailedEntry(reader[1].response.body[j])

contributorsReader == reader # <<>> /\ reader[1].kind = "contributors"

\* the commits the loop of the contributors handler has counted
countedCommits(r) == IF r.pc = "show" THEN r.k ELSE r.k - 1

\* what the commit of the j-th message of a contributor added
addedBy(c, j) ==
    IF c.commitMessages[j].summary = <<>> THEN [additions |-> 0, deletions |-> 0]
    ELSE scanCommit(showText(c.commitHashes[j]))

\* C2: a commit whose fetch timed out or failed is counted for its author
\* and its hash recorded, it adds nothing to additions and deletions, and
\* the loop goes on: at every point each contributor's commits equals the
\* length of commitHashes, which are the author's commits counted so far,
\* the counts sum to the number of commits counted, and in the response
\* that is the length of the history.
C2_FailedFetchStillCounted ==
    contributorsReader =>
        LET r == reader[1]
            n == countedCommits(r)
            commitsAt(i) == r.map[i].commits
        IN  /\ \A i \in 1..Len(r.map) :
                  LET c == r.map[i]
                      by(j) == r.log[j].author_name = c.username
                      own == PositionsOf(n, by)
                      adds(j) == addedBy(c, j).additions
                      dels(j) == addedBy(c, j).deletions
                  IN  /\ c.commits = Len(c.commitHashes)
                      /\ c.commitHashes = [j \in 1..Len(own) |-> r.log[own[j]].hash]
                      /\ Len(c.commitMessages) = Len(c.commitHashes)
                      /\ c.additions = SumSeq([j \in 1..Len(c.commitHashes) |-> adds(j)])
                      /\ c.deletions = SumSeq([j \in 1..Len(c.commitHashes) |-> dels(j)])
            /\ SumSeq([i \in 1..Len(r.map) |-> commitsAt(i)]) = n
            /\ (r.pc = "done" /\ r.response.status = 200) =>
                  /\ n = Len(r.log)
                  /\ Len(r.response.body) = Len(r.map)
                  /\ \A i \in 1..Len(r.map) :
                        \E p \in 1..Len(r.map) : r.response.body[p] = r.map[i]

\* a response where an author has a commit whose fetch failed, counted with
\* no summary, before a commit whose fetch succeeded
C2_Witness ==
    /\ contributorsReader
    /\ reader[1].pc = "done"
    /\ reader[1].response.status = 200
    /\ \E p \in 1..Len(reader[1].response.body) :
          LET c == reader[1].response.body[p]
          IN  /\ c.commits >= 2
              /\ c.commitMessages[1].summary = <<>>
              /\ c.commitMessages[2].summary # <<>>
              /\ c.additions > 0

\* C4: the contributors of the response are in descending order of commits,
\* and two contributors with equal commits are in the order in which their
\* names first appear in the history.
C4_SortedByCommits ==
    (contributorsReader /\ reader[1].pc = "done" /\ reader[1].response.status = 200) =>
        LET r == reader[1]
            body == r.response.body
            firstSeen(name) == CHOOSE j \in 1..Len(r.log) :
                                  /\ r.log[j].author_name = name
                                  /\ \A l \in 1..(j - 1) : r.log[l].author_name # name
        IN  \A p, q \in 1..Len(body) :
                p < q =>
                    \/ body[p].commits > body[q].commits
                    \/ /\ body[p].commits = body[q].commits
                       /\ firstSeen(body[p].username) < firstSeen(body[q].username)

\* a response with two contributors of equal commits after a contributor
\* with more commits who was seen last
C4_Witness ==
    /\ contributorsReader
    /\ reader[1].pc = "done"
    /\ reader[1].response.status = 200
    /\ Len(reader[1].response.body) = 3
    /\ reader[1].response.body[1].commits > reader[1].response.body[2].commits
    /\ reader[1].response.body[2].commits = reader[1].response.body[3].commits
    /\ reader[1].log[Len(reader[1].log)].author_name = reader[1].response.body[1].username

-----------------------------------------------------------------------------
(* Properties of the server (Spec) *)

\* C5: a contributors or diffs request that arrives while REPO_DIR does not
\* exist (before any clone, or after a delete) is answered at once by the
\* one error "No repository cloned yet" with no result in it, no request
\* that arrives while REPO_DIR exists gets that answer, and REPO_DIR
\* exists when a clone has answered with success.
C5_NoRepositoryIsOneError ==
    [][ /\ (reader = <<>> /\ reader' # <<>>) =>
              IF repoDir = <<>>
              THEN /\ reader'[1].pc = "done"
                   /\ reader'[1].response = NoRepoResponse
                   /\ reader'[1].response.body = NoBody
                   /\ reader'[1].diffs = <<>> /\ reader'[1].map = <<>>
              ELSE reader'[1].response # NoRepoResponse
        /\ (reader' # <<>> /\ reader' # reader /\ reader'[1].response = NoRepoResponse) =>
              (reader = <<>> /\ repoDir = <<>>)
        /\ (admin' # <<>> /\ admin' # admin /\ admin'[1].kind = "clone"
                /\ admin'[1].response.status = 200) =>
              repoDir' # <<>>
      ]_vars

\* a request answered by the error after a delete that succeeded
C5_Witness ==
    /\ reader # <<>>
    /\ reader[1].pc = "done"
    /\ reader[1].response = NoRepoResponse
    /\ admin # <<>>
    /\ admin[1].kind = "delete"
    /\ admin[1].response.status = 200

-----------------------------------------------------------------------------
(* Properties of the parsers (SpecParse) *)

parsedCommit == parsed # <<>>
scannedCommit == scanned # <<>>

CountWhere(n, P(_)) == Cardinality({k \in 1..n : P(k)})

\* the positions of the lines of the text that the capture loop may retain:
\* body lines at or after the first "diff --git"
retainablePositions ==
    {k \in 1..Len(text) :
        /\ startsWithBody(text[k])
        /\ \E j \in 1..k : startsWithDiffGit(text[j])}

\* C3: changes never holds more than maxLines lines of the diff body; they
\* are the first retainable lines of the text, in order; when the text has
\* a retainable line beyond the first maxLines, that line and the later
\* ones are not retained and the truncation marker follows the retained
\* lines as the one last entry.
C3_BodyCappedAtMaxLines ==
    parsedCommit =>
        LET ch == parsed[1].changes
            R == retainablePositions
            rank(k) == Cardinality({j \in R : j <= k})
            isBody(i) == ch[i] \notin {TruncatedLine, NoChangesLine}
        IN  /\ CountWhere(Len(ch), isBody) <= maxLines
            /\ \A k \in R : rank(k) <= maxLines => ch[rank(k)] = text[k]
            /\ Cardinality(R) > maxLines =>
                  /\ Len(ch) = maxLines + 1
                  /\ ch[maxLines + 1] = TruncatedLine
                  /\ \A i \in 1..maxLines : ch[i] # TruncatedLine
            /\ (Cardinality(R) > 0 /\ Cardinality(R) < maxLines) => Len(ch) = Cardinality(R)

\* a parsed text with more than maxLines retainable lines
C3_Witness ==
    /\ parsedCommit
    /\ Cardinality(retainablePositions) > maxLines
    /\ Len(parsed[1].changes) > maxLines

summaryPositions == {k \in 1..Len(text) : summaryMatch(text[k]).matched}

countOf(g) == IF g = <<>> THEN 0 ELSE parseInt(g)

\* C6: when the text of a commit has a summary line, the scan of the
\* contributors handler adds exactly the insertions and deletions of that
\* line, whatever phrases the other lines hold.
C6_SummaryCountedOnce ==
    (scannedCommit /\ Cardinality(summaryPositions) = 1) =>
        LET m == summaryMatch(text[CHOOSE k \in summaryPositions : TRUE])
        IN  /\ scanned[1].additions = countOf(m.g2)
            /\ scanned[1].deletions = countOf(m.g3)

\* the number a summary line of the text last gave for a counter, 0 when
\* none did
lastCarried(K, Group(_)) ==
    IF K = {} THEN 0 ELSE parseInt(Group(summaryMatch(text[Max(K)])))

groupFiles(m) == m.g1
groupIns(m) == m.g2
groupDel(m) == m.g3

\* C7: after the scan of a commit's lines, filesChanged is the number of
\* the last summary line, insertions the number of the last summary line
\* that has an insertions part and deletions the number of the last
\* summary line that has a deletions part.
C7_SummaryLineSetsCounters ==
    parsedCommit =>
        LET S == summaryPositions
            withIns == {k \in S : summaryMatch(text[k]).g2 # <<>>}
            withDel == {k \in S : summaryMatch(text[k]).g3 # <<>>}
            isRow(k) == fileLineMatch(text[k]).matched
        IN  /\ parsed[1].summary.insertions = lastCarried(withIns, groupIns)
            /\ parsed[1].summary.deletions = lastCarried(withDel, groupDel)
            /\ parsed[1].summary.filesChanged =
                  JsOr(lastCarried(S, groupFiles), CountWhere(Len(text), isRow))

\* the lines of the text that are the rename line, or a name-status line,
\* or the numstat line of a path
renamePositions(x) == {k \in 1..Len(text) : text[k] = RenameLineOf(x)}

nameStatusPositions ==
    {k \in 1..Len(text) : \E x \in NameStatusSpecs : text[k] = NameStatusLineOf(x)}

numstatPositions(path) ==
    {k \in 1..Len(text) : \E x \in NumstatSpecs : x.path = path /\ text[k] = NumstatLineOf(x)}

\* the counts the text's last numstat line of the path prints
numstatPrinted(path) ==
    LET x == CHOOSE y \in NumstatSpecs : y.path = path /\ text[Max(numstatPositions(path))] = NumstatLineOf(y)
    IN  [insertions |-> x.insertions, deletions |-> x.deletions, binary |-> x.binary]

\* the FileChange the rename line must yield
renamedFileChange(x) ==
    LET ns == IF numstatPositions(x.to) # {} THEN numstatPrinted(x.to)
              ELSE IF numstatPositions(x.from) # {} THEN numstatPrinted(x.from)
              ELSE [insertions |-> 0, deletions |-> 0, binary |-> FALSE]
    IN  [file |-> x.to, status |-> "R", from |-> x.from, to |-> x.to,
         insertions |-> ns.insertions, deletions |-> ns.deletions, binary |-> ns.binary]

\* C8: every rename line of the text yields exactly one FileChange of status
\* R with the from and to paths of the line, and none under the generic
\* name-status rule; the insertions, deletions and binary flag of that
\* FileChange are those of the numstat line of the destination path when the
\* text has one, otherwise those of the numstat line of the source path,
\* otherwise 0, 0 and false.
C8_RenameYieldsOneFileChange ==
    parsedCommit =>
        LET files == parsed[1].summary.files
            renames == UNION {renamePositions(x) : x \in RenameSpecs}
            isR(i) == files[i].status = "R"
        IN  /\ \A x \in RenameSpecs :
                  LET yields(i) == files[i] = renamedFileChange(x)
                  IN  CountWhere(Len(files), yields) = Cardinality(renamePositions(x))
            /\ CountWhere(Len(files), isR) = Cardinality(renames)
            /\ Len(files) = Cardinality(renames) + Cardinality(nameStatusPositions)
            /\ parsed[1].summary.counts.renamedFiles = Cardinality(renames)

\* a parsed text with a rename line and numstat lines of both of its paths
C8_Witness ==
    /\ parsedCommit
    /\ \E x \in RenameSpecs :
          /\ renamePositions(x) # {}
          /\ numstatPositions(x.to) # {}
          /\ numstatPositions(x.from) # {}
          /\ numstatPrinted(x.to) # numstatPrinted(x.from)
          /\ \E i \in 1..Len(parsed[1].summary.files) :
                parsed[1].summary.files[i] = renamedFileChange(x)

volumeOfFile(f) == f.insertions + f.deletions

\* C9 as stated: topFiles holds at most 3 entries, the paths of the
\* FileChange entries with the largest insertions + deletions, in descending
\* order of that sum.
C9_TopFilesAreLargestFileChanges ==
    parsedCommit =>
        LET files == parsed[1].summary.files
            top == parsed[1].summary.topFiles
        IN  /\ Len(top) = Min({topFilesLimit, Len(files)})
            /\ \E pick \in [1..Len(top) -> 1..Len(files)] :
                  /\ \A i, j \in 1..Len(top) : i # j => pick[i] # pick[j]
                  /\ \A i \in 1..Len(top) : top[i] = files[pick[i]].file
                  /\ \A i, j \in 1..Len(top) :
                        i < j => volumeOfFile(files[pick[i]]) >= volumeOfFile(files[pick[j]])
                  /\ \A i \in 1..Len(top) : \A l \in 1..Len(files) :
                        (\A j \in 1..Len(top) : pick[j] # l) =>
                            volumeOfFile(files[pick[i]]) >= volumeOfFile(files[l])

\* the rows of the --stat table in the text
statRowPositions ==
    {k \in 1..Len(text) : \E x \in StatRowSpecs : text[k] = StatRowOf(x)}

statRowAt(k) == CHOOSE x \in StatRowSpecs : text[k] = StatRowOf(x)

\* C9: topFiles holds at most topFilesLimit entries, the paths of the rows
\* of the --stat table with the largest change counts, in descending order
\* of the count, rows of equal counts in the order of the text.
C9_TopFilesAreLargestStatRows ==
    parsedCommit =>
        LET top == parsed[1].summary.topFiles
            rows == statRowPositions
            ahead(j, k) ==
                \/ statRowAt(j).changes > statRowAt(k).changes
                \/ statRowAt(j).changes = statRowAt(k).changes /\ j < k
            rank(k) == Cardinality({j \in rows : ahead(j, k)}) + 1
        IN  /\ Len(top) <= topFilesLimit
            /\ Len(top) = Min({topFilesLimit, Cardinality(rows)})
            /\ \A k \in rows : rank(k) <= topFilesLimit => top[rank(k)] = statRowAt(k).path

\* a parsed text with more rows than topFilesLimit, two of them of equal
\* counts
C9_Witness ==
    /\ parsedCommit
    /\ Cardinality(statRowPositions) > topFilesLimit
    /\ Len(parsed[1].summary.topFiles) = topFilesLimit
    /\ \E j, k \in statRowPositions :
          j # k /\ statRowAt(j).changes = statRowAt(k).changes

\* the substring after the last '.' of the last segment of the path
extensionAfterLastDot(file) ==
    LET seg == lastSegment(file)
        dots == {i \in 1..Len(seg) : seg[i] = "."}
    IN  IF dots = {} THEN <<"noext">> ELSE SubSeq(seg, Max(dots) + 1, Len(seg))

\* C10: byExtension has one bucket for every extension of a FileChange, the
\* extension being what follows the last '.' of the last path segment, and
\* the files, insertions and deletions of a bucket are the count and the
\* sums over the FileChange entries of that extension.
C10_ByExtensionAfterLastDot ==
    parsedCommit =>
        LET files == parsed[1].summary.files
            by == parsed[1].summary.byExtension
            extAt(i) == extensionAfterLastDot(files[i].file)
        IN  /\ DOMAIN by = {extAt(i) : i \in 1..Len(files)}
            /\ \A e \in DOMAIN by :
                  LET in(i) == extAt(i) = e
                      ins(i) == IF in(i) THEN files[i].insertions ELSE 0
                      del(i) == IF in(i) THEN files[i].deletions ELSE 0
                  IN  /\ by[e].files = CountWhere(Len(files), in)
                      /\ by[e].insertions = SumSeq([i \in 1..Len(files) |-> ins(i)])
                      /\ by[e].deletions = SumSeq([i \in 1..Len(files) |-> del(i)])

\* the counters the scan of index.js:233-240 has after the one line
countersAfter(line) == scanLine(scanInit, line)

\* C11: the text of a commit's summary, read again by the summary-line
\* matcher, gives the filesChanged, insertions and deletions of the
\* summary.
C11_TextRoundTrip ==
    parsedCommit =>
        LET s == parsed[1].summary
            back == countersAfter(joinParts(s.text))
        IN  /\ back.filesChanged = s.filesChanged
            /\ back.ins = s.insertions
            /\ back.del = s.deletions

-----------------------------------------------------------------------------
(* The diff filter of the specification, against the diffs response *)

\* the header of a diff block names a path with a segment node_modules
isExcludedHeader(line) ==
    /\ startsWithDiffGit(line)
    /\ \E i \in 2..Len(line) :
          /\ line[i] = "node_modules"
          /\ line[i - 1] = "/"
          /\ At(line, i + 1) \in {"/", " ", NoTok}

\* the header of the block that the line at k belongs to, 0 before any block
blockOf(lines, k) ==
    Max({0} \cup {j \in 1..k : startsWithDiffGit(lines[j])})

blocksOf(lines) == {j \in 1..Len(lines) : startsWithDiffGit(lines[j])}

allBlocksExcluded(lines) ==
    /\ blocksOf(lines) # {}
    /\ \A j \in blocksOf(lines) : isExcludedHeader(lines[j])

\* the text without the lines of its excluded blocks
keptLines(lines) ==
    LET keep(k) == blockOf(lines, k) = 0 \/ ~isExcludedHeader(lines[blockOf(lines, k)])
        pos == PositionsOf(Len(lines), keep)
    IN  [i \in 1..Len(pos) |-> lines[pos[i]]]

\* C12: the diffs response has no entry for a fetched commit whose every
\* diff block is of a path under node_modules, and the changes of the entry
\* of any other fetched commit are the body lines of the blocks that are
\* not under node_modules.
C12_ExcludedBlocksFiltered ==
    (diffsReader /\ reader[1].pc = "done" /\ reader[1].response.status = 200) =>
        \A i \in 1..Len(reader[1].diffs) :
            LET e == reader[1].diffs[i]
                lines == showText(e.commit)
            IN  ~isFailedEntry(e) =>
                    /\ ~allBlocksExcluded(lines)
                    /\ e.changes = changesOfCommit(keptLines(lines))

-----------------------------------------------------------------------------
(* A request in progress while a clone or a delete runs (Spec) *)

\* the entry of a commit whose git.show(...) was called on the null handle
isNullHandleEntry(e) == e.changes = ErrorChanges(TypeErrorMsg)

\* C13: whenever a step of a contributors or diffs request issues the fetch
\* of a commit, the handle is not null and REPO_DIR holds the complete
\* checkout whose history the request listed, and no step of the request
\* adds the entry of a fetch made through the null handle.
C13_FetchesUseListedCheckout ==
    [][ (reader' # <<>> /\ reader' # reader) =>
            /\ reader'[1].pc = "show" =>
                  /\ git' = "simpleGit"
                  /\ repoDir' # <<>>
                  /\ repoDir'[1].complete
                  /\ repoDir'[1].history = reader'[1].log
            /\ \A i \in 1..Len(reader'[1].diffs) : ~isNullHandleEntry(reader'[1].diffs[i])
      ]_vars

====
